---- MODULE Spec2Model ----
(***************************************************************************)
(* Genotype frequencies per cohort (src/main.py): get_cohort_ids,          *)
(* genotypes_matrix, genotype_frequencies and the main loop over cohorts.  *)
(*                                                                         *)
(* Text is modelled as a sequence of one-character strings, so that        *)
(* joining, formatting and pattern matching are computed, not assumed.     *)
(***************************************************************************)
EXTENDS Integers, Sequences, FiniteSets, TLC

VARIABLES
    pc,           \* position of the running function
    caller,       \* "main" when the function was entered from main, else "none"
    output_dir,   \* main: TRUE iff --output_dir was given
    cohorts_path, \* get_cohort_ids: the cohort files, <<[stem, frame]>>
    cohorts,      \* get_cohort_ids: the list of frames being rewritten
    max_len,      \* get_cohort_ids: max_len
    ci,           \* get_cohort_ids: loop index i (1-based)
    cohort_ids,   \* the Cohort Table returned by get_cohort_ids
    cohort_no,    \* main: index of the cohort being processed (1-based)
    printed,      \* main: the output events so far
    ids_to_keep,  \* genotypes_matrix: the optional inclusion list
    handles,      \* every pysam.VariantFile opened so far: "open" / "closed"
    vcf,          \* genotypes_matrix: index in handles of its handle, 0 if none
    held,         \* handles still referenced by a live frame or traceback
    samples,      \* genotypes_matrix: samples
    data,         \* genotypes_matrix: data
    variant_ids,  \* genotypes_matrix: variant_ids
    recs,         \* the records the stream has yielded so far
    df,           \* the Genotype Matrix
    counts,       \* genotype_frequencies: counts
    totals,       \* genotype_frequencies: totals
    freqs         \* genotype_frequencies: freqs

vars == <<pc, caller, output_dir, cohorts_path, cohorts, max_len, ci, cohort_ids,
          cohort_no, printed, ids_to_keep, handles, vcf, held, samples, data,
          variant_ids, recs, df, counts, totals, freqs>>

chVars == <<cohorts_path, cohorts, max_len, ci, cohort_ids>>
mainVars == <<output_dir, cohort_no, printed>>
gmVars == <<ids_to_keep, handles, vcf, held, samples, data, variant_ids, recs, df>>
gfVars == <<counts, totals, freqs>>

(***************************************************************************)
(* Bounds of the model.                                                    *)
(***************************************************************************)
MaxRecords == 2
MaxKeep == 2
MaxRows == 2
MaxVariants == 2
MaxFiles == 2
MaxFileRows == 2

(***************************************************************************)
(* Text helpers.                                                           *)
(***************************************************************************)
ToSet(s) == {s[i] : i \in 1..Len(s)}

SeqsUpTo(S, n) == UNION {[1..k -> S] : k \in 0..n}

DigitChars == <<"0", "1", "2", "3", "4", "5", "6", "7", "8", "9">>

RECURSIVE Str(_)
\* str(n) / f"{n}" of a non-negative integer
Str(n) == IF n < 10 THEN <<DigitChars[n + 1]>>
          ELSE Str(n \div 10) \o <<DigitChars[(n % 10) + 1]>>

RECURSIVE Join(_, _)
\* sep.join(parts)
Join(sep, parts) ==
    IF Len(parts) = 0 THEN <<>>
    ELSE IF Len(parts) = 1 THEN parts[1]
    ELSE parts[1] \o sep \o Join(sep, Tail(parts))

ID1 == <<"C", "1", "-", "E", "x", "C", "1", "-", "x", "g", "e", "n", "V", "1">>
ID2 == <<"C", "2", "-", "E", "x", "C", "3", "0", "-", "x", "g", "e", "n", "V", "2">>
ID3 == <<"C", "9", "-", "E", "x", "C", "9", "-", "x", "g", "e", "n", "V", "9">>
\* a text that is not an identifier: the digits after "xgenV" are missing
TXT == <<"C", "1", "-", "E", "x", "C", "1", "-", "x", "g", "e", "n", "V">>

(***************************************************************************)
(* get_cohort_ids                                                          *)
(*                                                                         *)
(* A frame is a sequence of columns of equal length; a cohort file is      *)
(* given by its rows, as read by pd.read_csv(header=None).                 *)
(***************************************************************************)
\* a missing value read from the file, and the pd.NA used for padding
NaN == <<"NaN">>
NA == <<"<NA>">>
IsNull(v) == v \in {NaN, NA}

\* astype(str)
AsStr(v) == IF v = NaN THEN <<"n", "a", "n">> ELSE v

Digits == ToSet(DigitChars)

RECURSIVE SkipDigits(_, _)
\* the first position at or after i that holds no digit
SkipDigits(t, i) == IF i <= Len(t) /\ t[i] \in Digits THEN SkipDigits(t, i + 1) ELSE i

\* the literal lit occurs in t at position i
Lit(t, i, lit) ==
    /\ i + Len(lit) - 1 <= Len(t)
    /\ \A k \in 1..Len(lit) : t[i + k - 1] = lit[k]

\* line 73: re.match of ^C\d+-ExC\d+-xgenV\d+$
IdMatch(t) ==
    /\ Lit(t, 1, <<"C">>)
    /\ LET d1 == SkipDigits(t, 2)
       IN /\ d1 > 2
          /\ Lit(t, d1, <<"-", "E", "x", "C">>)
          /\ LET d2 == SkipDigits(t, d1 + 4)
             IN /\ d2 > d1 + 4
                /\ Lit(t, d2, <<"-", "x", "g", "e", "n", "V">>)
                /\ LET d3 == SkipDigits(t, d2 + 6)
                   IN d3 > d2 + 6 /\ d3 = Len(t) + 1

\* lines 65-68: the frame read from the rows of a file
ReadCsv(rows) == [c \in 1..Len(rows[1]) |-> [r \in 1..Len(rows) |-> rows[r][c]]]

\* len(frame)
FrameLen(fr) == IF Len(fr) = 0 THEN 0 ELSE Len(fr[1])

RECURSIVE MaxOf(_)
MaxOf(q) == IF Len(q) = 1 THEN q[1]
            ELSE LET m == MaxOf(Tail(q)) IN IF q[1] >= m THEN q[1] ELSE m

\* ColMatches testing for any non-null value instead of a matching one
ColMatches_nonNull(fr) ==
    SelectSeq([c \in 1..Len(fr) |-> c],
              LAMBDA c : \E r \in 1..Len(fr[c]) : ~IsNull(fr[c][r]))

\* lines 74-78: the columns with at least one matching value, in column order
ColMatches(fr) ==
    SelectSeq([c \in 1..Len(fr) |-> c],
              LAMBDA c : \E r \in 1..Len(fr[c]) : IdMatch(AsStr(fr[c][r])))

\* dropna that drops nothing
DropNa_keep(col) == col

\* line 86: dropna().reset_index(drop=True) of one column
DropNa(col) == SelectSeq(col, LAMBDA v : ~IsNull(v))

\* lines 90-93: pad with pd.NA up to n rows
Pad(col, n) == IF Len(col) < n THEN col \o [k \in 1..(n - Len(col)) |-> NA] ELSE col

\* path.stem: the name without its last suffix
RECURSIVE Stem(_)
Stem(path) == IF path = <<>> THEN <<>>
              ELSE IF path[Len(path)] = "." THEN SubSeq(path, 1, Len(path) - 1)
              ELSE Stem(SubSeq(path, 1, Len(path) - 1))

\* lines 95-96: pd.concat(cohorts, axis=1) aligns the frames on their row
\* index 0..n-1 (a shorter frame is filled with NaN), then the columns are
\* renamed to the file stems
ConcatColumns(frames, paths) ==
    LET n == MaxOf([i \in 1..Len(frames) |-> FrameLen(frames[i])])
        all == [i \in 1..Len(frames) |->
                   [c \in 1..Len(frames[i]) |->
                       frames[i][c] \o [k \in 1..(n - Len(frames[i][c])) |-> NaN]]]
    IN [columns |-> [i \in 1..Len(paths) |-> Stem(paths[i].path)],
        cols |-> [i \in 1..Len(frames) |-> all[i][1]]]

NoTable == [columns |-> <<>>, cols |-> <<>>]

\* lines 65-69
CH_Read ==
    /\ pc = "ch_call"
    /\ cohorts' = [i \in 1..Len(cohorts_path) |-> ReadCsv(cohorts_path[i].rows)]
    /\ max_len' = MaxOf([i \in 1..Len(cohorts_path) |-> FrameLen(cohorts'[i])])
    /\ ci' = 1
    /\ pc' = "ch_loop"
    /\ UNCHANGED <<caller, cohorts_path, cohort_ids, mainVars, gmVars, gfVars>>

\* lines 71-93: one iteration of the loop, for a file that has an id column
CH_Iter ==
    /\ pc = "ch_loop"
    /\ ci <= Len(cohorts)
    /\ ColMatches(cohorts[ci]) # <<>>
    /\ LET id_col == ColMatches(cohorts[ci])[1]
           cohort == DropNa(cohorts[ci][id_col])
       IN cohorts' = [cohorts EXCEPT ![ci] = <<Pad(cohort, max_len)>>]
    /\ ci' = ci + 1
    /\ UNCHANGED <<pc, caller, cohorts_path, max_len, cohort_ids, mainVars, gmVars,
                   gfVars>>

\* lines 79-83: no column matches, ValueError
CH_Raise ==
    /\ pc = "ch_loop"
    /\ ci <= Len(cohorts)
    /\ ColMatches(cohorts[ci]) = <<>>
    /\ pc' = IF caller = "main" THEN "main_raised" ELSE "ch_raised"
    /\ UNCHANGED <<caller, chVars, mainVars, gmVars, gfVars>>

\* lines 95-97
CH_Concat ==
    /\ pc = "ch_loop"
    /\ ci > Len(cohorts)
    /\ cohort_ids' = ConcatColumns(cohorts, cohorts_path)
    /\ pc' = IF caller = "main" THEN "main_loop" ELSE "ch_returned"
    /\ cohort_no' = IF caller = "main" THEN 1 ELSE cohort_no
    /\ UNCHANGED <<caller, cohorts_path, cohorts, max_len, ci, output_dir, printed,
                   gmVars, gfVars>>

\* the paths of the cohort files
PathOf(i) == <<"k">> \o Str(i) \o <<".", "c", "s", "v">>

\* the rows a file can have: one column, or a label column and an id column
RowKinds1 == {<<NaN>>, <<ID1>>, <<TXT>>}
RowKinds2 == {<<TXT, ID1>>, <<ID1, NaN>>}

FileRows ==
    UNION {[1..n -> RowKinds1] \cup [1..n -> RowKinds2] : n \in 1..MaxFileRows}

\* cohorts_path is a list of 1..MaxFiles files with rows drawn from rowsets
IsFileList(paths, rowsets) ==
    \E n \in 1..MaxFiles : \E f \in [1..n -> rowsets] :
        paths = [i \in 1..n |-> [path |-> PathOf(i), rows |-> f[i]]]

(***************************************************************************)
(* genotypes_matrix                                                        *)
(***************************************************************************)
\* header samples of the variant-call source
HeaderSamples == <<ID1, ID2>>

\* a null allele (None inside the GT tuple)
NoneAllele == -1

\* sample.get("GT") is None
NoGT == [present |-> FALSE, alleles |-> <<>>, phased |-> FALSE]
GT(a, p) == [present |-> TRUE, alleles |-> a, phased |-> p]

\* an absent call, a diploid call with both alleles null, a phased diploid call
\* with one null allele, and a haploid call
Calls == {NoGT,
          GT(<<NoneAllele, NoneAllele>>, FALSE),
          GT(<<NoneAllele, 1>>, TRUE),
          GT(<<0>>, FALSE)}

VariantKeys == {[chrom |-> <<"c", "h", "r", "1">>, pos |-> 7],
                [chrom |-> <<"c", "h", "r", "1">>, pos |-> 12]}

KeepUniverse == {ID1, ID2, TXT}
NoKeep == [given |-> FALSE, ids |-> <<>>]
KeepLists == {NoKeep} \cup {[given |-> TRUE, ids |-> k] : k \in SeqsUpTo(KeepUniverse, MaxKeep)}

MissingToken == <<".", "/", ".">>

\* GStr with the separator taken from the phasing flag
GStr_phasing(call) ==
    IF ~call.present THEN MissingToken
    ELSE LET sep == IF call.phased THEN <<"|">> ELSE <<"/">>
         IN Join(sep, [i \in 1..Len(call.alleles) |->
                          IF call.alleles[i] = NoneAllele THEN <<".">>
                          ELSE Str(call.alleles[i])])

\* GStr with any null allele turning the whole call into the missing token
GStr_anyNull(call) ==
    IF ~call.present THEN MissingToken
    ELSE IF \E i \in 1..Len(call.alleles) : call.alleles[i] = NoneAllele
    THEN MissingToken
    ELSE Join(<<"/">>, [i \in 1..Len(call.alleles) |-> Str(call.alleles[i])])

\* lines 131-136: the Genotype Call string of one call
GStr(call) ==
    IF ~call.present THEN MissingToken
    ELSE LET sep == <<"/">>
         IN Join(sep, [i \in 1..Len(call.alleles) |->
                          IF call.alleles[i] = NoneAllele THEN <<".">>
                          ELSE Str(call.alleles[i])])

\* line 125
Vid(rec) == rec.chrom \o <<"_">> \o Str(rec.pos)

\* FilterSamples iterating the inclusion list instead of the header
FilterSamples_byKeep(hs, keep) ==
    IF keep.given
    THEN SelectSeq(keep.ids, LAMBDA s : s \in ToSet(hs))
    ELSE hs

\* lines 117-119
FilterSamples(hs, keep) ==
    IF keep.given
    THEN LET ids_set == ToSet(keep.ids)
         IN SelectSeq(hs, LAMBDA s : s \in ids_set)
    ELSE hs

\* line 139: pd.DataFrame(data, index=variant_ids).T
Frame(d, ss, vids) ==
    [index |-> ss, columns |-> vids, cells |-> [i \in 1..Len(ss) |-> d[ss[i]]]]

NoFrame == [index |-> <<>>, columns |-> <<>>, cells |-> <<>>]

GMReset ==
    /\ handles = <<>> /\ vcf = 0 /\ held = {}
    /\ samples = <<>> /\ data = <<>> /\ variant_ids = <<>> /\ recs = <<>>
    /\ df = NoFrame

\* line 115: the source opens
GM_Open ==
    /\ pc = "gm_call"
    /\ handles' = Append(handles, "open")
    /\ vcf' = Len(handles) + 1
    /\ held' = held \cup {Len(handles) + 1}
    /\ samples' = HeaderSamples
    /\ data' = <<>> /\ variant_ids' = <<>> /\ recs' = <<>>
    /\ pc' = "gm_filter"
    /\ UNCHANGED <<caller, chVars, mainVars, ids_to_keep, df, gfVars>>

\* line 115: pysam.VariantFile raises (missing or unreadable source)
GM_OpenFail ==
    /\ pc = "gm_call"
    /\ vcf' = 0
    /\ pc' = IF caller = "main" THEN "main_raised" ELSE "gm_raised"
    /\ UNCHANGED <<caller, chVars, mainVars, ids_to_keep, handles, held, samples,
                   data, variant_ids, recs, df, gfVars>>

\* lines 117-122
GM_Filter ==
    /\ pc = "gm_filter"
    /\ samples' = FilterSamples(samples, ids_to_keep)
    /\ data' = [s \in ToSet(samples') |-> <<>>]
    /\ variant_ids' = <<>>
    /\ pc' = "gm_fetch"
    /\ UNCHANGED <<caller, chVars, mainVars, ids_to_keep, handles, vcf, held, recs,
                   df, gfVars>>

\* lines 124-137: one iteration of the loop over vcf.fetch().  Only the calls
\* of the kept samples are read from the record.
GM_Record(keys, calls) ==
    /\ pc = "gm_fetch"
    /\ Len(recs) < MaxRecords
    /\ \E key \in keys, gts \in [ToSet(samples) -> calls] :
          LET rec == [chrom |-> key.chrom, pos |-> key.pos, gt |-> gts]
          IN /\ recs' = Append(recs, rec)
             /\ variant_ids' = Append(variant_ids, Vid(rec))
             /\ data' = [s \in DOMAIN data |-> Append(data[s], GStr(rec.gt[s]))]
    /\ UNCHANGED <<pc, caller, chVars, mainVars, ids_to_keep, handles, vcf, held,
                   samples, df, gfVars>>

\* line 124: the stream raises while iterating (malformed source).  The
\* exception's traceback keeps the frame, and so the handle, referenced.
GM_FetchFail ==
    /\ pc = "gm_fetch"
    /\ pc' = IF caller = "main" THEN "main_raised" ELSE "gm_raised"
    /\ UNCHANGED <<caller, chVars, mainVars, gmVars, gfVars>>

\* lines 139-142: the stream is exhausted.  The function returns without
\* closing vcf: the handle is released when the interpreter finalizes the
\* unreferenced object, at once under reference counting, later otherwise.
GM_Return ==
    /\ pc = "gm_fetch"
    /\ df' = Frame(data, samples, variant_ids)
    /\ held' = held \ {vcf}
    /\ \E at_once \in BOOLEAN :
          handles' = IF at_once THEN [handles EXCEPT ![vcf] = "closed"] ELSE handles
    /\ pc' = IF caller = "main" THEN "gf_call" ELSE "gm_returned"
    /\ UNCHANGED <<caller, chVars, mainVars, ids_to_keep, vcf, samples, data,
                   variant_ids, recs, gfVars>>

\* the interpreter finalizes an unreferenced VariantFile, which closes it
Finalize ==
    /\ \E h \in 1..Len(handles) :
          /\ handles[h] = "open"
          /\ h \notin held
          /\ handles' = [handles EXCEPT ![h] = "closed"]
    /\ UNCHANGED <<pc, caller, chVars, mainVars, ids_to_keep, vcf, held, samples,
                   data, variant_ids, recs, df, gfVars>>

Idle ==
    /\ cohorts_path = <<>> /\ cohorts = <<>> /\ max_len = 0 /\ ci = 0
    /\ cohort_ids = NoTable
    /\ output_dir = FALSE /\ cohort_no = 0 /\ printed = <<>>
    /\ counts = <<>> /\ totals = <<>> /\ freqs = NoFrame

InitGM ==
    /\ pc = "gm_call"
    /\ caller = "none"
    /\ ids_to_keep \in KeepLists
    /\ GMReset
    /\ Idle

NextGM ==
    \/ GM_Open
    \/ GM_OpenFail
    \/ GM_Filter
    \/ GM_Record(VariantKeys, Calls)
    \/ GM_FetchFail
    \/ GM_Return
    \/ Finalize

SpecGM == InitGM /\ [][NextGM]_vars

(***************************************************************************)
(* genotype_frequencies                                                    *)
(*                                                                         *)
(* A frequency is kept as the exact fraction num/den; nan marks a cell     *)
(* that holds no number (a label absent before reindex, or 0/0).           *)
(***************************************************************************)
Frac(n, d) == IF d = 0 THEN [nan |-> TRUE, num |-> 0, den |-> 0]
              ELSE [nan |-> FALSE, num |-> n, den |-> d]
NaNCell == [nan |-> TRUE, num |-> 0, den |-> 0]

G00 == <<"0", "/", "0">>
G01 == <<"0", "/", "1">>
G11 == <<"1", "/", "1">>
G12 == <<"1", "/", "2">>
GN1 == <<".", "/", "1">>

\* line 162: the labels passed to reindex
CanonicalOrder == <<G00, G01, G11, MissingToken>>

RECURSIVE SumOver(_, _)
SumOver(f, S) == IF S = {} THEN 0
                 ELSE LET x == CHOOSE y \in S : TRUE
                      IN f[x] + SumOver(f, S \ {x})

\* the distinct Genotype Call strings of the matrix
Observed(m) == {m.cells[i][j] : i \in 1..Len(m.index), j \in 1..Len(m.columns)}

\* pd.Series.value_counts of column j, for the label g
CountIn(m, j, g) == Cardinality({i \in 1..Len(m.index) : m.cells[i][j] = g})

\* line 157: df.apply(pd.Series.value_counts).fillna(0).astype(int).T
\* One row per variant, one column per string observed anywhere in the matrix
\* (the union of the per-column value_counts indexes), 0 where a string does
\* not occur in the variant.  The order of the union is not modelled: reindex
\* replaces it.
ValueCounts(m) ==
    [index |-> m.columns,
     columns |-> Observed(m),
     val |-> [j \in 1..Len(m.columns) |-> [g \in Observed(m) |-> CountIn(m, j, g)]]]

\* line 158: counts.sum(axis=1)
RowTotals(cn) == [j \in 1..Len(cn.index) |-> SumOver(cn.val[j], cn.columns)]

\* line 159: counts.div(totals, axis=0)
Div(cn, tt) ==
    [index |-> cn.index,
     columns |-> cn.columns,
     val |-> [j \in 1..Len(cn.index) |->
                 [g \in cn.columns |-> Frac(cn.val[j][g], tt[j])]]]

\* line 162: freqs.reindex(columns=target, level=0).  The columns are a flat
\* index, whose level 0 is the index itself, so the frame is conformed to
\* target: the result has exactly the labels of target, in that order; a label
\* the frame lacks is filled with NaN and a column of the frame that target
\* lacks is dropped.
Reindex(fr, target) ==
    [index |-> fr.index,
     columns |-> target,
     cells |-> [j \in 1..Len(fr.index) |->
                  [c \in 1..Len(target) |->
                      IF target[c] \in fr.columns THEN fr.val[j][target[c]]
                      ELSE NaNCell]]]

\* line 157
GF_Counts ==
    /\ pc = "gf_call"
    /\ counts' = ValueCounts(df)
    /\ pc' = "gf_div"
    /\ UNCHANGED <<caller, chVars, mainVars, gmVars, totals, freqs>>

\* lines 158-159
GF_Div ==
    /\ pc = "gf_div"
    /\ totals' = RowTotals(counts)
    /\ freqs' = Div(counts, totals')
    /\ pc' = "gf_reindex"
    /\ UNCHANGED <<caller, chVars, mainVars, gmVars, counts>>

\* lines 162-165
GF_Reindex ==
    /\ pc = "gf_reindex"
    /\ freqs' = Reindex(freqs, CanonicalOrder)
    /\ pc' = IF caller = "main" THEN "main_output" ELSE "gf_returned"
    /\ UNCHANGED <<caller, chVars, mainVars, gmVars, counts, totals>>

GenotypeStrings == {G00, G01, G11, MissingToken, G12, GN1}

RowName(i) == <<"S">> \o Str(i)
ColName(j) == <<"c", "h", "r", "1", "_">> \o Str(j)

Matrices ==
    UNION {{[index |-> [i \in 1..n |-> RowName(i)],
             columns |-> [j \in 1..v |-> ColName(j)],
             cells |-> c] : c \in [1..n -> [1..v -> GenotypeStrings]]}
           : n \in 0..MaxRows, v \in 0..MaxVariants}

InitGF ==
    /\ pc = "gf_call"
    /\ caller = "none"
    /\ ids_to_keep = NoKeep
    /\ handles = <<>> /\ vcf = 0 /\ held = {}
    /\ samples = <<>> /\ data = <<>> /\ variant_ids = <<>> /\ recs = <<>>
    /\ df \in Matrices
    /\ Idle

NextGF ==
    \/ GF_Counts
    \/ GF_Div
    \/ GF_Reindex

SpecGF == InitGF /\ [][NextGF]_vars

(***************************************************************************)
(* get_cohort_ids on its own                                               *)
(***************************************************************************)
InitCohort ==
    /\ pc = "ch_call"
    /\ caller = "none"
    /\ IsFileList(cohorts_path, FileRows)
    /\ cohorts = <<>> /\ max_len = 0 /\ ci = 0 /\ cohort_ids = NoTable
    /\ output_dir = FALSE /\ cohort_no = 0 /\ printed = <<>>
    /\ ids_to_keep = NoKeep
    /\ GMReset
    /\ counts = <<>> /\ totals = <<>> /\ freqs = NoFrame

NextCohort ==
    \/ CH_Read
    \/ CH_Iter
    \/ CH_Raise
    \/ CH_Concat

SpecCohort == InitCohort /\ [][NextCohort]_vars

(***************************************************************************)
(* main                                                                    *)
(***************************************************************************)
\* lines 36-40: the next cohort; its non-null identifiers are the inclusion
\* list of the genotypes_matrix call
Main_Cohort ==
    /\ pc = "main_loop"
    /\ cohort_no <= Len(cohort_ids.columns)
    /\ printed' = Append(printed, [kind |-> "processing",
                                   cohort |-> cohort_ids.columns[cohort_no]])
    /\ ids_to_keep' = [given |-> TRUE, ids |-> DropNa(cohort_ids.cols[cohort_no])]
    /\ pc' = "gm_call"
    /\ UNCHANGED <<caller, chVars, output_dir, cohort_no, handles, vcf, held, samples,
                   data, variant_ids, recs, df, gfVars>>

\* lines 43-49: the frequency table is written to <output_dir>/<cohort>.csv
\* or printed
Main_Output ==
    /\ pc = "main_output"
    /\ printed' = Append(printed, [kind |-> IF output_dir THEN "saved" ELSE "table",
                                   cohort |-> cohort_ids.columns[cohort_no]])
    /\ cohort_no' = cohort_no + 1
    /\ pc' = "main_loop"
    /\ UNCHANGED <<caller, chVars, output_dir, gmVars, gfVars>>

\* line 36: no cohort is left
Main_Exit ==
    /\ pc = "main_loop"
    /\ cohort_no > Len(cohort_ids.columns)
    /\ pc' = "main_exit"
    /\ UNCHANGED <<caller, chVars, mainVars, gmVars, gfVars>>

\* the cohort files of the runs of main: one identifier, no identifier column,
\* an identifier the source does not have after an empty field, and a label
\* column followed by the column of the identifier
MainFileRows == {<<<<ID1>>>>,
                 <<<<TXT>>>>,
                 <<<<NaN>>, <<ID3>>>>,
                 <<<<TXT, ID2>>>>}

MainCalls == {NoGT, GT(<<0>>, FALSE)}
MainKeys == {[chrom |-> <<"c", "h", "r", "1">>, pos |-> 7]}

Init ==
    /\ pc = "ch_call"
    /\ caller = "main"
    /\ output_dir \in BOOLEAN
    /\ IsFileList(cohorts_path, MainFileRows)
    /\ cohorts = <<>> /\ max_len = 0 /\ ci = 0 /\ cohort_ids = NoTable
    /\ cohort_no = 0 /\ printed = <<>>
    /\ ids_to_keep = NoKeep
    /\ GMReset
    /\ counts = <<>> /\ totals = <<>> /\ freqs = NoFrame

Next ==
    \/ CH_Read
    \/ CH_Iter
    \/ CH_Raise
    \/ CH_Concat
    \/ Main_Cohort
    \/ GM_Open
    \/ GM_OpenFail
    \/ GM_Filter
    \/ GM_Record(MainKeys, MainCalls)
    \/ GM_FetchFail
    \/ GM_Return
    \/ Finalize
    \/ GF_Counts
    \/ GF_Div
    \/ GF_Reindex
    \/ Main_Output
    \/ Main_Exit

Spec == Init /\ [][Next]_vars

(***************************************************************************)
(* Properties of genotypes_matrix (checked under SpecGM).                  *)
(***************************************************************************)
HeaderPos(s) == CHOOSE i \in 1..Len(HeaderSamples) : HeaderSamples[i] = s

\* the call of the sample of row i in the record of column j
CallAt(i, j) == recs[j].gt[df.index[i]]

Cells == {<<i, j>> : i \in 1..Len(df.index), j \in 1..Len(df.columns)}

\* the one-character symbol of an allele below 10
SymbolOf(a) == IF a = NoneAllele THEN "." ELSE DigitChars[a + 1]

\* cell is the k allele symbols of the call with sepch between neighbours
CellIsJoin(cell, call, sepch) ==
    LET k == Len(call.alleles)
    IN /\ Len(cell) = 2 * k - 1
       /\ \A m \in 1..k : cell[2 * m - 1] = SymbolOf(call.alleles[m])
       /\ \A m \in 1..(k - 1) : cell[2 * m] = sepch

\* C1: the matrix returned by genotypes_matrix has as rows exactly the header
\* samples that are in the inclusion list (all of them when it is omitted),
\* each once and in header order; one column per record in stream order; and
\* every row has one cell per column.
C1_MatrixShape ==
    pc = "gm_returned" =>
        LET want == {h \in ToSet(HeaderSamples) :
                        ~ids_to_keep.given \/ h \in ToSet(ids_to_keep.ids)}
        IN /\ ToSet(df.index) = want
           /\ Len(df.index) = Cardinality(want)
           /\ \A i, j \in 1..Len(df.index) :
                 i < j => HeaderPos(df.index[i]) < HeaderPos(df.index[j])
           /\ Len(df.columns) = Len(recs)
           /\ \A j \in 1..Len(recs) :
                 df.columns[j] = recs[j].chrom \o <<"_">> \o Str(recs[j].pos)
           /\ Len(df.cells) = Len(df.index)
           /\ \A i \in 1..Len(df.index) : Len(df.cells[i]) = Len(df.columns)

\* C1 witness: an inclusion list in reverse header order, two records with the
\* same chrom_pos, and both samples kept
C1_Witness ==
    /\ pc = "gm_returned"
    /\ ids_to_keep.given /\ ids_to_keep.ids = <<ID2, ID1>>
    /\ Len(df.index) = 2
    /\ Len(df.columns) = 2 /\ df.columns[1] = df.columns[2]

\* C2 as stated: a present call of k alleles is rendered as its k allele
\* symbols joined with "/" if unphased and with "|" if phased.
C2_PhasedSeparator ==
    pc = "gm_returned" =>
        \A c \in Cells :
            CallAt(c[1], c[2]).present =>
                CellIsJoin(df.cells[c[1]][c[2]], CallAt(c[1], c[2]),
                           IF CallAt(c[1], c[2]).phased THEN "|" ELSE "/")

\* C2 amended: a present call of k alleles is rendered as its k allele symbols
\* joined with "/", whether or not the source marks the call phased.
C2_SlashSeparator ==
    pc = "gm_returned" =>
        \A c \in Cells :
            CallAt(c[1], c[2]).present =>
                CellIsJoin(df.cells[c[1]][c[2]], CallAt(c[1], c[2]), "/")

\* C2 witness: the matrix holds a present phased call of two alleles
C2_Witness ==
    /\ pc = "gm_returned"
    /\ \E c \in Cells :
          /\ CallAt(c[1], c[2]).present
          /\ CallAt(c[1], c[2]).phased
          /\ Len(CallAt(c[1], c[2]).alleles) = 2

\* C3 as stated: the cell is the missing token when the call is absent or when
\* either allele of the call is absent.
C3_EitherAlleleMissing ==
    pc = "gm_returned" =>
        \A c \in Cells :
            LET call == CallAt(c[1], c[2])
            IN (~call.present \/ \E m \in 1..Len(call.alleles) :
                                     call.alleles[m] = NoneAllele)
               => df.cells[c[1]][c[2]] = MissingToken

\* C3 amended: the cell is the missing token exactly when the call is absent
\* or the call has two alleles and both are absent.
C3_BothAllelesMissing ==
    pc = "gm_returned" =>
        \A c \in Cells :
            LET call == CallAt(c[1], c[2])
            IN (df.cells[c[1]][c[2]] = MissingToken)
               <=> (~call.present \/ call.alleles = <<NoneAllele, NoneAllele>>)

\* C3 witness: the matrix holds an absent call, a call with both alleles null
\* and a call with one null allele
C3_Witness ==
    /\ pc = "gm_returned"
    /\ \E c \in Cells : ~CallAt(c[1], c[2]).present
    /\ \E c \in Cells : CallAt(c[1], c[2]) = GT(<<NoneAllele, NoneAllele>>, FALSE)
    /\ \E c \in Cells : CallAt(c[1], c[2]) = GT(<<NoneAllele, 1>>, TRUE)

(***************************************************************************)
(* Properties of genotype_frequencies (checked under SpecGF).              *)
(***************************************************************************)
IsZero(x) == ~x.nan /\ x.num = 0
IsOne(x) == ~x.nan /\ x.num = x.den /\ x.den > 0

\* the numerators of row j of the returned table, NaN counting for nothing
RowNums(j) == [c \in 1..Len(freqs.columns) |->
                  IF freqs.cells[j][c].nan THEN 0 ELSE freqs.cells[j][c].num]

\* the cells of the matrix variant by variant, samples top to bottom
Scan(m) == [k \in 1..(Len(m.index) * Len(m.columns)) |->
               m.cells[((k - 1) % Len(m.index)) + 1][((k - 1) \div Len(m.index)) + 1]]

RECURSIVE Dedup(_)
Dedup(q) == IF q = <<>> THEN <<>>
            ELSE LET r == Dedup(SubSeq(q, 1, Len(q) - 1))
                 IN IF q[Len(q)] \in ToSet(r) THEN r ELSE Append(r, q[Len(q)])

\* canonical labels present in the data first, then the others as first seen
ExpectedColumns(m) ==
    SelectSeq(CanonicalOrder, LAMBDA g : g \in Observed(m))
    \o SelectSeq(Dedup(Scan(m)), LAMBDA g : g \notin ToSet(CanonicalOrder))

\* C4: for a matrix with at least one row, the counts kept in each variant's
\* row of the returned table sum to the number of samples, i.e. the
\* frequencies of the row sum to 1.
C4_RowSumsToOne ==
    (pc = "gf_returned" /\ Len(df.index) >= 1) =>
        \A j \in 1..Len(freqs.index) :
            /\ SumOver(RowNums(j), 1..Len(freqs.columns)) = Len(df.index)
            /\ \A c \in 1..Len(freqs.columns) :
                  ~freqs.cells[j][c].nan => freqs.cells[j][c].den = Len(df.index)

\* C5: the returned table has one column per distinct string observed in the
\* matrix and no others, canonical labels first and the others in first-seen
\* order, and a string absent from a variant has value 0 in that variant's row.
C5_ObservedColumns ==
    (pc = "gf_returned" /\ Len(df.index) >= 1 /\ Len(df.columns) >= 1) =>
        /\ freqs.columns = ExpectedColumns(df)
        /\ \A j \in 1..Len(freqs.index), c \in 1..Len(freqs.columns) :
              CountIn(df, j, freqs.columns[c]) = 0 => IsZero(freqs.cells[j][c])

\* C6: for a matrix with at least one row, a variant whose samples all have
\* the same call g has frequency 1 in the column of g and 0 in the column of
\* every other string observed in the matrix.
C6_UniformVariant ==
    (pc = "gf_returned" /\ Len(df.index) >= 1) =>
        \A j \in 1..Len(df.columns), g \in Observed(df) :
            (\A i \in 1..Len(df.index) : df.cells[i][j] = g) =>
                /\ \E c \in 1..Len(freqs.columns) :
                      freqs.columns[c] = g /\ IsOne(freqs.cells[j][c])
                /\ \A c \in 1..Len(freqs.columns) :
                      (freqs.columns[c] # g /\ freqs.columns[c] \in Observed(df))
                          => IsZero(freqs.cells[j][c])

(***************************************************************************)
(* Properties of get_cohort_ids (checked under SpecCohort) and of main     *)
(* (checked under Spec).                                                   *)
(***************************************************************************)
\* some value of column c of the file matches the identifier pattern
HasMatch(rows, c) == \E r \in 1..Len(rows) : IdMatch(AsStr(rows[r][c]))

HasIdColumn(rows) == \E c \in 1..Len(rows[1]) : HasMatch(rows, c)

\* the non-null values, in file order, of the first column that has a match
IdValues(rows) ==
    LET c == CHOOSE k \in 1..Len(rows[1]) :
                 HasMatch(rows, k) /\ \A k2 \in 1..(k - 1) : ~HasMatch(rows, k2)
    IN SelectSeq([r \in 1..Len(rows) |-> rows[r][c]], LAMBDA v : v # NaN)

NonNullCount(col) == Cardinality({r \in 1..Len(col) : ~IsNull(col[r])})

\* C7: the Cohort Table has one column per file, in input order and named by
\* the file stem; all columns have the same length; each column holds the
\* identifiers retained from its file, in file order, followed only by nulls.
C7_PaddedColumns ==
    pc = "ch_returned" =>
        /\ Len(cohort_ids.columns) = Len(cohorts_path)
        /\ Len(cohort_ids.cols) = Len(cohorts_path)
        /\ \A i \in 1..Len(cohorts_path) :
              LET col == cohort_ids.cols[i]
                  ids == IdValues(cohorts_path[i].rows)
              IN /\ cohort_ids.columns[i] \o <<".", "c", "s", "v">> = cohorts_path[i].path
                 /\ Len(col) = Len(cohort_ids.cols[1])
                 /\ Len(col) >= Len(ids)
                 /\ \A r \in 1..Len(col) :
                       IF r <= Len(ids) THEN col[r] = ids[r] ELSE IsNull(col[r])

\* C7 witness: a file whose identifier follows an empty field, next to a file
\* with two identifiers in its first column
C7_Witness ==
    /\ pc = "ch_returned"
    /\ Len(cohorts_path) = 2
    /\ cohorts_path[1].rows = <<<<NaN>>, <<ID1>>>>
    /\ cohorts_path[2].rows = <<<<TXT, ID1>>, <<ID1, NaN>>>>
    /\ cohort_ids.cols[1] = <<ID1, NA>>

\* C8: the common row count of the Cohort Table is the largest number of
\* non-null identifiers retained from a file.
C8_LongestCohort ==
    pc = "ch_returned" =>
        Len(cohort_ids.cols[1]) =
            MaxOf([i \in 1..Len(cohort_ids.cols) |-> NonNullCount(cohort_ids.cols[i])])

\* C9: when some cohort file has no column with a value matching the
\* identifier pattern, get_cohort_ids never gets past that file and returns
\* no table, and main processes no cohort and prints or writes nothing.
C9_NoCohortProcessed ==
    \A i \in 1..Len(cohorts_path) :
        ~HasIdColumn(cohorts_path[i].rows) =>
            /\ pc \in {"ch_call", "ch_loop", "main_raised"}
            /\ ci <= i
            /\ cohort_ids = NoTable
            /\ cohort_no = 0
            /\ printed = <<>>
            /\ handles = <<>>

\* C9 witness: the call has failed on the second file, the first one having an
\* identifier column
C9_Witness ==
    /\ pc = "main_raised"
    /\ Len(cohorts_path) = 2
    /\ HasIdColumn(cohorts_path[1].rows)
    /\ ~HasIdColumn(cohorts_path[2].rows)
    /\ ci = 2

\* C10: the handle opened by genotypes_matrix is closed on every exit path of
\* the call: at most one handle is open at any time, and none is open once
\* control has left genotypes_matrix.
C10_HandleReleased ==
    /\ Cardinality({h \in 1..Len(handles) : handles[h] = "open"}) <= 1
    /\ pc \notin {"gm_filter", "gm_fetch"} =>
          \A h \in 1..Len(handles) : handles[h] = "closed"

====
